---- MODULE Spec2Model ----
(***************************************************************************)
(* Exact substring search: linear scan, Knuth-Morris-Pratt and             *)
(* Boyer-Moore-Horspool, and the pattern handle (BMHPattern, which embeds  *)
(* a KMPPattern over the pattern's bytes) that memoizes their tables.      *)
(*                                                                         *)
(* Slices and vectors are TLA+ sequences; the source indexes from 0, so    *)
(* every read goes through At(s, i) == s[i + 1].  An index that is out of  *)
(* range and a failed assert_eq! both panic; a panic ends the program.     *)
(***************************************************************************)
EXTENDS Integers, Sequences, FiniteSets, TLC

\* Bounds of the model.
MaxPat == 3
MaxText == 4

\* std::u8::MAX
U8_MAX == 255

\* The bytes patterns and texts are drawn from: 'a' and 'b'.
Alphabet == {97, 98}

SeqsUpTo(n) == UNION {[1..k -> Alphabet] : k \in 0..n}
Patterns == SeqsUpTo(MaxPat)
Texts == SeqsUpTo(MaxText)

\* s[i] of the source (0-based).
At(s, i) == s[i + 1]

\* Option<T>, and the two ways a call can abort instead of returning.
None == [tag |-> "None"]
Some(v) == [tag |-> "Some", val |-> v]
OobPanic == [tag |-> "Panic", msg |-> "index out of bounds"]
AssertPanic == [tag |-> "Panic", msg |-> "assertion failed"]
\* The value of `result` before any call and while a call is running.
NoResult == [tag |-> "NoResult"]

IsPanic(r) == r.tag = "Panic"

(***************************************************************************)
(* linear_search                                                           *)
(***************************************************************************)
\* The `for i_pattern` loop at start i_text, from i_pattern on.  The text is
\* indexed (line 89) before the end-of-text test (line 94).
RECURSIVE linear_inner(_, _, _, _)
linear_inner(pat, txt, i_text, i_pattern) ==
  IF i_pattern >= Len(pat) THEN "found"
  ELSE IF i_text + i_pattern >= Len(txt) THEN "oob"
  ELSE IF At(txt, i_text + i_pattern) # At(pat, i_pattern) THEN "continue"
  ELSE IF i_text + i_pattern = Len(txt) THEN "break"
  ELSE linear_inner(pat, txt, i_text, i_pattern + 1)

\* The `'text: for i_text` loop, from i_text on.
RECURSIVE linear_outer(_, _, _)
linear_outer(pat, txt, i_text) ==
  IF i_text >= Len(txt) THEN None
  ELSE LET r == linear_inner(pat, txt, i_text, 0) IN
       CASE r = "found" -> Some(i_text)
         [] r = "continue" -> linear_outer(pat, txt, i_text + 1)
         [] r = "break" -> None
         [] r = "oob" -> OobPanic

linear_search(pat, txt) == linear_outer(pat, txt, 0)

(***************************************************************************)
(* border_table                                                            *)
(***************************************************************************)
\* while pattern[b] != *c && b != 0 { b = borders[b] }
RECURSIVE border_chain(_, _, _, _)
border_chain(pat, bs, c, b) ==
  IF At(pat, b) # c /\ b # 0 THEN border_chain(pat, bs, c, At(bs, b)) ELSE b

\* The for loop over pattern.iter().skip(1).enumerate().skip(1): the items are
\* (i, c) = (1, pattern[2]), (2, pattern[3]), ..., (m - 2, pattern[m - 1]).
RECURSIVE border_loop(_, _, _)
border_loop(pat, bs, i) ==
  IF i + 1 >= Len(pat) THEN bs
  ELSE LET c == At(pat, i + 1)
           b == border_chain(pat, bs, c, At(bs, i))
       IN border_loop(pat, Append(bs, IF At(pat, b) = c THEN b + 1 ELSE 0), i + 1)

\* The vector as it stands when the closing assert_eq! is reached.
border_vec(pat) == border_loop(pat, <<0, 0>>, 1)

\* Some(borders) when the function returns, AssertPanic when assert_eq! fails.
border_table(pat) ==
  IF Len(pat) = Len(border_vec(pat)) THEN Some(border_vec(pat)) ELSE AssertPanic

(***************************************************************************)
(* kmp_search                                                              *)
(***************************************************************************)
RECURSIVE kmp_loop(_, _, _, _, _)
kmp_loop(pat, txt, bs, t0, p) ==
  IF ~(t0 + p < Len(txt)) THEN None
  ELSE IF p >= Len(pat) THEN OobPanic
  ELSE IF At(txt, t0 + p) = At(pat, p)
       THEN IF p + 1 = Len(pat) THEN Some(t0)
            ELSE kmp_loop(pat, txt, bs, t0, p + 1)
  ELSE IF p = 0 THEN kmp_loop(pat, txt, bs, t0 + 1, 0)
  ELSE IF p >= Len(bs) THEN OobPanic
  ELSE kmp_loop(pat, txt, bs, t0 + (p - At(bs, p)), At(bs, p))

kmp_search(pat, txt, bs) == kmp_loop(pat, txt, bs, 0, 0)

(***************************************************************************)
(* bad_character_table                                                     *)
(***************************************************************************)
\* for (i, c) in pattern.bytes().enumerate() { table[c] = len - 1 - i }
RECURSIVE bad_char_fill(_, _, _)
bad_char_fill(pat, table, i) ==
  IF i >= Len(pat) THEN table
  ELSE bad_char_fill(pat, [table EXCEPT ![At(pat, i)] = Len(pat) - 1 - i], i + 1)

\* (0..std::u8::MAX).map(|_| pattern.len()).collect(): indices 0 .. U8_MAX - 1.
\* A &str holds no byte 0xFF, so the fill never indexes past the vector.
bad_character_table(pat) ==
  bad_char_fill(pat, [c \in 0..(U8_MAX - 1) |-> Len(pat)], 0)

(***************************************************************************)
(* bmh_search: the inner loop as an operator, the outer loop as steps      *)
(***************************************************************************)
\* while text[t+p] == pattern[p] { if p == 0 { return Some(t) } p -= 1; }
\* -1 when the loop returns Some(t), otherwise the p at which it exits.
RECURSIVE bmh_back(_, _, _, _)
bmh_back(pat, txt, t0, p) ==
  IF At(txt, t0 + p) = At(pat, p)
  THEN IF p = 0 THEN -1 ELSE bmh_back(pat, txt, t0, p - 1)
  ELSE p

(***************************************************************************)
(* The pattern handle                                                      *)
(***************************************************************************)
VARIABLES
  pattern,          \* BMHPattern.pattern / u8_kmp.pattern
  borders,          \* u8_kmp.borders: Option<Vec<usize>>
  bad_char_table,   \* BMHPattern.bad_char_table: Option<Vec<usize>>
  border_builds,    \* number of calls of border_table made by kmp
  bad_char_builds,  \* number of calls of bad_character_table made by bmh
  op,               \* the last method called: "new", "linear", "kmp", "bmh"
  arm,              \* the match arm the last kmp/bmh call took on its slot
  text,             \* the text argument of the last call
  result,           \* what the last call returned, or the panic that ended it
  pc,               \* "idle", "bmh" (inside bmh_search's loop), "panicked"
  t                 \* bmh_search's cursor

vars == <<pattern, borders, bad_char_table, border_builds, bad_char_builds,
          op, arm, text, result, pc, t>>

\* BMHPattern::new
Init ==
  /\ pattern \in Patterns
  /\ borders = None
  /\ bad_char_table = None
  /\ border_builds = 0
  /\ bad_char_builds = 0
  /\ op = "new"
  /\ arm = "-"
  /\ text = <<>>
  /\ result = NoResult
  /\ pc = "idle"
  /\ t = 0

\* BMHPattern::linear -> KMPPattern::linear -> linear_search
Linear(x) ==
  /\ pc = "idle"
  /\ op' = "linear"
  /\ arm' = "-"
  /\ text' = x
  /\ result' = linear_search(pattern, x)
  /\ pc' = IF IsPanic(result') THEN "panicked" ELSE "idle"
  /\ UNCHANGED <<pattern, borders, bad_char_table, border_builds, bad_char_builds, t>>

\* BMHPattern::kmp -> KMPPattern::kmp: fill the slot if it is empty, then search.
Kmp_always_builds(x) ==
  /\ pc = "idle"
  /\ op' = "kmp"
  /\ text' = x
  /\ arm' = "None"
  /\ border_builds' = border_builds + 1
  /\ IF border_table(pattern) = AssertPanic
     THEN /\ borders' = borders
          /\ result' = AssertPanic
     ELSE /\ borders' = border_table(pattern)
          /\ result' = kmp_search(pattern, x, borders'.val)
  /\ pc' = IF IsPanic(result') THEN "panicked" ELSE "idle"
  /\ UNCHANGED <<pattern, bad_char_table, bad_char_builds, t>>

Kmp(x) ==
  /\ pc = "idle"
  /\ op' = "kmp"
  /\ text' = x
  /\ IF borders = None
     THEN /\ arm' = "None"
          /\ border_builds' = border_builds + 1
          /\ IF border_table(pattern) = AssertPanic
             THEN /\ borders' = borders
                  /\ result' = AssertPanic
             ELSE /\ borders' = border_table(pattern)
                  /\ result' = kmp_search(pattern, x, borders'.val)
     ELSE /\ arm' = "Some"
          /\ UNCHANGED <<borders, border_builds>>
          /\ result' = kmp_search(pattern, x, borders.val)
  /\ pc' = IF IsPanic(result') THEN "panicked" ELSE "idle"
  /\ UNCHANGED <<pattern, bad_char_table, bad_char_builds, t>>

\* BMHPattern::bmh up to the head of bmh_search's while loop: fill the slot if
\* it is empty, return None at once for the empty pattern, else set t = 0.
Bmh(x) ==
  /\ pc = "idle"
  /\ op' = "bmh"
  /\ text' = x
  /\ IF bad_char_table = None
     THEN /\ arm' = "None"
          /\ bad_char_builds' = bad_char_builds + 1
          /\ bad_char_table' = Some(bad_character_table(pattern))
     ELSE /\ arm' = "Some"
          /\ UNCHANGED <<bad_char_table, bad_char_builds>>
  /\ IF Len(pattern) = 0
     THEN /\ result' = None
          /\ pc' = "idle"
     ELSE /\ result' = NoResult
          /\ pc' = "bmh"
  /\ t' = 0
  /\ UNCHANGED <<pattern, borders, border_builds>>

\* One pass of `while t + pattern.len() <= text.len()`.
BmhStep ==
  /\ pc = "bmh"
  /\ IF ~(t + Len(pattern) <= Len(text))
     THEN /\ result' = None
          /\ pc' = "idle"
          /\ t' = t
     ELSE LET p == bmh_back(pattern, text, t, Len(pattern) - 1) IN
          IF p = -1
          THEN /\ result' = Some(t)
               /\ pc' = "idle"
               /\ t' = t
          ELSE /\ t' = t + bad_char_table.val[At(text, t + p)]
               /\ UNCHANGED <<result, pc>>
  /\ UNCHANGED <<pattern, borders, bad_char_table, border_builds, bad_char_builds,
                 op, arm, text>>

Next ==
  \/ \E x \in Texts : Linear(x)
  \/ \E x \in Texts : Kmp(x)
  \/ \E x \in Texts : Bmh(x)
  \/ BmhStep

Spec == Init /\ [][Next]_vars

(***************************************************************************)
(* What the results are compared with                                      *)
(***************************************************************************)
\* The whole of pat lies in txt at position k.
Occurs(pat, txt, k) ==
  /\ k + Len(pat) <= Len(txt)
  /\ \A j \in 0..(Len(pat) - 1) : At(txt, k + j) = At(pat, j)

Occurrences(pat, txt) == {k \in 0..Len(txt) : Occurs(pat, txt, k)}

\* Some(the smallest position at which pat occurs), None if there is none.
FirstOccurrence(pat, txt) ==
  IF Occurrences(pat, txt) = {} THEN None
  ELSE Some(CHOOSE k \in Occurrences(pat, txt) :
              \A k2 \in Occurrences(pat, txt) : k <= k2)

\* b is the length of a proper border of the first i elements of pat.
IsBorder(pat, i, b) ==
  /\ b < i
  /\ \A j \in 0..(b - 1) : At(pat, j) = At(pat, i - b + j)

\* The length of the longest proper border of the first i elements (0 for i = 0).
LongestBorder(pat, i) ==
  IF i = 0 THEN 0
  ELSE CHOOSE b \in 0..(i - 1) :
         /\ IsBorder(pat, i, b)
         /\ \A b2 \in 0..(i - 1) : IsBorder(pat, i, b2) => b2 <= b

\* The positions of byte c in pat.
PositionsOf(pat, c) == {i \in 0..(Len(pat) - 1) : At(pat, i) = c}

\* The shift the bad-character rule prescribes for byte c.
RightmostShift(pat, c) ==
  IF PositionsOf(pat, c) = {} THEN Len(pat)
  ELSE Len(pat) - 1 - (CHOOSE i \in PositionsOf(pat, c) :
                         \A i2 \in PositionsOf(pat, c) : i2 <= i)

\* The last call has returned (it neither panicked nor is still running).
Returned == pc = "idle" /\ op # "new"

(***************************************************************************)
(* Properties                                                              *)
(***************************************************************************)
\* C1: the three matchers return the same result on the same pattern and text:
\* whatever kmp or bmh returns is what linear_search gives for that pattern and
\* text.  Stated for the non-empty patterns, on which all three are specified.
CrossAlgorithmAgreement ==
  (Returned /\ op \in {"kmp", "bmh"} /\ pattern # <<>>)
    => result = linear_search(pattern, text)

\* C2: a kmp call that returns gives Some(k) exactly when k is the smallest
\* position at which the pattern occurs in the text, and None exactly when the
\* pattern occurs nowhere.
KmpFirstOccurrence ==
  (Returned /\ op = "kmp") => result = FirstOccurrence(pattern, text)

\* C3: for a non-empty pattern, bmh never skips an occurrence: what it returns
\* is the smallest position at which the pattern occurs, or None when the
\* pattern occurs nowhere.
BmhFirstOccurrence ==
  (Returned /\ op = "bmh" /\ pattern # <<>>)
    => result = FirstOccurrence(pattern, text)

\* C4: no matcher reads the text at an index >= n, and a call whose pattern is
\* longer than its text returns None.
NoOutOfRangeRead ==
  /\ result # OobPanic
  /\ (Returned /\ Len(pattern) > Len(text)) => result = None

\* C5: with the empty pattern, linear and kmp return Some(0) on every text,
\* the empty text included.
EmptyPatternMatchesAtZero ==
  (pattern = <<>> /\ op \in {"linear", "kmp"}) => result = Some(0)

\* C6: every entry i the border table holds, for i from 0 to m, is the length
\* of the longest proper border of the pattern's first i elements (entries 0
\* and 1 being 0).
BorderTableCorrect ==
  borders # None =>
    \A i \in 0..Len(pattern) :
      i < Len(borders.val) => At(borders.val, i) = LongestBorder(pattern, i)

\* C7: the bad-character table has one entry for each byte value 0..255; a byte
\* absent from the pattern maps to m, a byte whose rightmost occurrence is at i
\* maps to m - 1 - i, and every entry lies in [0, m].
BadCharTableCorrect ==
  bad_char_table # None =>
    /\ DOMAIN bad_char_table.val = 0..U8_MAX
    /\ \A c \in 0..U8_MAX :
         /\ bad_char_table.val[c] = RightmostShift(pattern, c)
         /\ bad_char_table.val[c] \in 0..Len(pattern)

\* C8: each table is built at most once, the border table by a kmp call that
\* finds its slot empty and the bad-character table by a bmh call that finds
\* its slot empty; a filled slot never changes again, and no other call (a
\* linear call in particular) touches a slot or builds a table.
CacheFilledOnce ==
  [][ /\ (borders # None => borders' = borders)
      /\ (bad_char_table # None => bad_char_table' = bad_char_table)
      /\ border_builds' <= 1
      /\ bad_char_builds' <= 1
      /\ (border_builds' # border_builds => (op' = "kmp" /\ borders = None))
      /\ (bad_char_builds' # bad_char_builds => (op' = "bmh" /\ bad_char_table = None))
      /\ (borders' # borders => (op' = "kmp" /\ border_builds' = border_builds + 1))
      /\ (bad_char_table' # bad_char_table
            => (op' = "bmh" /\ bad_char_builds' = bad_char_builds + 1))
    ]_vars

\* A kmp call that found the border table already in its slot and returned,
\* on a handle whose bad-character table has been built as well.
CacheReused ==
  /\ Returned /\ op = "kmp" /\ arm = "Some"
  /\ borders # None /\ border_builds = 1
  /\ bad_char_table # None /\ bad_char_builds = 1

\* C9: bmh_search runs to completion: whenever its loop stands at a window
\* that fits the text and does not match, the shift it is about to apply to
\* the cursor t is at least 1.
BmhMismatchAdvances ==
  (pc = "bmh" /\ t + Len(pattern) <= Len(text)
     /\ bmh_back(pattern, text, t, Len(pattern) - 1) # -1)
    => bad_char_table.val[
         At(text, t + bmh_back(pattern, text, t, Len(pattern) - 1))] >= 1

\* C10: the assert_eq! that closes border_table holds for every pattern, of
\* length 0 and 1 too: no kmp call aborts while building its table.
BorderAssertHolds == result # AssertPanic

====
